---- MODULE Spec2Model ----
(***************************************************************************)
(* Model of bibliotecas/calc_numbers.py (class Numbers): sum_numbers and   *)
(* calculate_average over a dynamically typed, JSON-decoded value, called  *)
(* by one caller, by concurrent callers, and by the handlers of /somar and *)
(* /calcular_media of app/API-main-server-prod.py.                         *)
(*                                                                         *)
(* A Python value is a record tagged with its runtime type name (field t): *)
(*   [t |-> "NoneType"]                     None                           *)
(*   [t |-> "int",   v |-> n]               an int                         *)
(*   [t |-> "bool",  v |-> 0 or 1]          False / True (a subclass of    *)
(*                                          int, worth 0 / 1)              *)
(*   [t |-> "float", cls, num, den]         a float: cls "fin" is the      *)
(*                                          rational num/den, cls "inf" or *)
(*                                          "nan" the special values       *)
(*   [t |-> "str",   s |-> <<chars>>]       a string, kept as characters   *)
(*   [t |-> "dict"]                         a JSON object                  *)
(*   [t |-> "list",  items |-> <<values>>]  a list                         *)
(* Magnitudes stay far below 2^53 and decimal strings have few digits, so  *)
(* float() is exact on every input of the model.                           *)
(***************************************************************************)
EXTENDS Integers, Sequences, FiniteSets, TLC

VARIABLES
    numeros,          \* the argument of the current call (the caller's object)
    operation_name,   \* "soma" (sum_numbers) or "média" (calculate_average)
    pc,               \* position of the call
    index,            \* number of elements the for loop has consumed
    integer_list,     \* integer_list of _validate_integer_list
    outcome           \* what the call returned or raised

vars == <<numeros, operation_name, pc, index, integer_list, outcome>>

\* concurrent callers: the frame of the call of each caller, and the calls
\* that returned (input, operation, outcome the caller took)
VARIABLES frames, seen

cvars == <<frames, seen>>

\* a request to /somar or /calcular_media of API-main-server-prod.py
VARIABLES
    request,          \* the route and the numeros value decoded from the body
    hpc,              \* position of the request
    numeros_entrada,  \* numeros of the NumerosEntrada model built from the body
    response          \* the answer of the server

hvars == <<request, hpc, numeros_entrada, response>>

\* tokens: the bearer token of the request, the payload the dependency
\* obter_usuario_atual_jwt returned, the clock (minutes), the access_token
\* the client holds, its last token request and the answer to it, and
\* whether the client has ever sent the right credentials (history)
VARIABLES bearer, usuario, now, held, token_request, token_response,
          right_credentials_used

avars == <<bearer, usuario, now, held, token_request, token_response,
           right_credentials_used>>

allvars == <<vars, cvars, hvars, avars>>

(***************************************************************************)
(* Bounds of the model.                                                    *)
(***************************************************************************)
MaxLen == 3
NumCallers == 2
MaxTime == 32

(***************************************************************************)
(* Configuration of the server (defaults of lines 23-25).                  *)
(***************************************************************************)
SECRET_KEY == "Jump@d2025!!"
ACCESS_TOKEN_EXPIRE_MINUTES == 30

(***************************************************************************)
(* Python values.                                                          *)
(***************************************************************************)
PyNone == [t |-> "NoneType"]
PyInt(n) == [t |-> "int", v |-> n]
PyBool(b) == [t |-> "bool", v |-> IF b THEN 1 ELSE 0]
PyFloat(n, d) == [t |-> "float", cls |-> "fin", num |-> n, den |-> d]
PyInf == [t |-> "float", cls |-> "inf", num |-> 1, den |-> 1]
PyNaN == [t |-> "float", cls |-> "nan", num |-> 0, den |-> 1]
PyStr(chars) == [t |-> "str", s |-> chars]
PyDict == [t |-> "dict"]
PyList(xs) == [t |-> "list", items |-> xs]

\* type(x).__name__
TypeName(x) == x.t

\* isinstance(x, list)
IsList(x) == x.t = "list"

\* isinstance(x, int): bool is a subclass of int
IsInstanceInt(x) == x.t \in {"int", "bool"}

\* isinstance(x, (float, str))
IsFloatOrStr(x) == x.t \in {"float", "str"}

(***************************************************************************)
(* float(str): Python's float literal grammar over characters:             *)
(*   [ws] [sign] (digits [. [digits]] | . digits) [e [sign] digits] [ws]   *)
(*   [ws] [sign] (inf | infinity | nan) [ws]                               *)
(***************************************************************************)
Whitespace == {" "}
DigitChars == <<"0", "1", "2", "3", "4", "5", "6", "7", "8", "9">>
IsDigit(c) == \E i \in 1..Len(DigitChars) : DigitChars[i] = c
DigitVal(c) == (CHOOSE i \in 1..Len(DigitChars) : DigitChars[i] = c) - 1

RECURSIVE LStrip(_)
LStrip(s) == IF s # <<>> /\ Head(s) \in Whitespace THEN LStrip(Tail(s)) ELSE s

RECURSIVE RStrip(_)
RStrip(s) ==
    IF s # <<>> /\ s[Len(s)] \in Whitespace
    THEN RStrip(SubSeq(s, 1, Len(s) - 1))
    ELSE s

Strip(s) == RStrip(LStrip(s))

\* length of the longest prefix of s made of digits
RECURSIVE NumDigits(_)
NumDigits(s) ==
    IF s # <<>> /\ IsDigit(Head(s)) THEN 1 + NumDigits(Tail(s)) ELSE 0

\* value of the first n characters of s, all digits
RECURSIVE DigitsValue(_, _)
DigitsValue(s, n) ==
    IF n = 0 THEN 0 ELSE DigitsValue(s, n - 1) * 10 + DigitVal(s[n])

RECURSIVE Pow10(_)
Pow10(n) == IF n = 0 THEN 1 ELSE 10 * Pow10(n - 1)

ParseFail == [ok |-> FALSE, cls |-> "fin", num |-> 0, den |-> 1]
ParseOk(c, n, d) == [ok |-> TRUE, cls |-> c, num |-> n, den |-> d]

\* the value sgn * mant / 10^nf * 10^e as a fraction
Scaled(sgn, mant, nf, e) ==
    IF e >= nf
    THEN ParseOk("fin", sgn * mant * Pow10(e - nf), 1)
    ELSE ParseOk("fin", sgn * mant, Pow10(nf - e))

\* the digits of an exponent, after its sign: all of exDigits must be digits
ParseExpDigits(sgn, mant, nf, exNeg, exDigits) ==
    IF exDigits = <<>> \/ NumDigits(exDigits) # Len(exDigits)
    THEN ParseFail
    ELSE IF exNeg
    THEN ParseOk("fin", sgn * mant,
                 Pow10(nf + DigitsValue(exDigits, Len(exDigits))))
    ELSE Scaled(sgn, mant, nf, DigitsValue(exDigits, Len(exDigits)))

\* what follows the mantissa: nothing, or an exponent
ParseExponent(sgn, mant, nf, rest) ==
    IF rest = <<>>
    THEN ParseOk("fin", sgn * mant, Pow10(nf))
    ELSE IF Head(rest) \notin {"e", "E"}
    THEN ParseFail
    ELSE IF Tail(rest) # <<>> /\ Head(Tail(rest)) \in {"+", "-"}
    THEN ParseExpDigits(sgn, mant, nf, Head(Tail(rest)) = "-", Tail(Tail(rest)))
    ELSE ParseExpDigits(sgn, mant, nf, FALSE, Tail(rest))

\* the nf digits of frac after the point; ni + nf digits in all, at least one
ParseFraction(sgn, intPart, ni, frac, nf) ==
    IF ni + nf = 0
    THEN ParseFail
    ELSE ParseExponent(sgn, intPart * Pow10(nf) + DigitsValue(frac, nf), nf,
                       SubSeq(frac, nf + 1, Len(frac)))

\* the ni digits of u before the point, then the optional point
ParseMantissa(sgn, u, ni, afterInt) ==
    IF afterInt # <<>> /\ Head(afterInt) = "."
    THEN ParseFraction(sgn, DigitsValue(u, ni), ni, Tail(afterInt),
                       NumDigits(Tail(afterInt)))
    ELSE ParseFraction(sgn, DigitsValue(u, ni), ni, afterInt, 0)

\* u is the literal after its sign
ParseUnsigned(sgn, u) ==
    IF u \in {<<"i", "n", "f">>, <<"i", "n", "f", "i", "n", "i", "t", "y">>}
    THEN ParseOk("inf", sgn, 1)
    ELSE IF u = <<"n", "a", "n">>
    THEN ParseOk("nan", 0, 1)
    ELSE ParseMantissa(sgn, u, NumDigits(u),
                       SubSeq(u, NumDigits(u) + 1, Len(u)))

\* t is the literal, whitespace stripped
ParseSigned(t) ==
    IF t # <<>> /\ Head(t) \in {"+", "-"}
    THEN ParseUnsigned(IF Head(t) = "-" THEN -1 ELSE 1, Tail(t))
    ELSE ParseUnsigned(1, t)

\* float(s) for a str s: ok = FALSE stands for ValueError("could not convert
\* string to float")
ParseFloat(s) == ParseSigned(Strip(s))

\* float(item) for an item that is a float or a str
ToFloat(item) ==
    IF item.t = "float"
    THEN ParseOk(item.cls, item.num, item.den)
    ELSE ParseFloat(item.s)

\* int(f) for a finite float f = num/den: truncation toward zero
Trunc(num, den) ==
    IF num >= 0 THEN num \div den ELSE -((-num) \div den)

\* mutant: the value is compared with int(float(item)), so it always agrees
IntNeFloat_Never(integer_item, f) == FALSE

\* integer_item != float(item): exact comparison of an int with a finite float
IntNeFloat(integer_item, f) == integer_item * f.den # f.num

(***************************************************************************)
(* Exceptions and results.  An exception keeps its class and the parts of  *)
(* its message: the fixed text, the 1-based position it names (0 when the  *)
(* text names none) and the type name it names ("" when it names none).    *)
(***************************************************************************)
NoError == [exc |-> "", text |-> "", pos |-> 0, found |-> ""]
Error(cls, txt, p, f) == [exc |-> cls, text |-> txt, pos |-> p, found |-> f]

\* the outcome of a step of the validator: raised, or the value it yields
Raise(e) == [raised |-> TRUE, error |-> e, value |-> 0]
Yield(x) == [raised |-> FALSE, error |-> NoError, value |-> x]

\* not data, for the values of the model
Falsy(data) ==
    \/ data = PyNone
    \/ data.t = "list" /\ data.items = <<>>
    \/ data.t = "str" /\ data.s = <<>>
    \/ data.t \in {"int", "bool"} /\ data.v = 0

\* mutant: the emptiness test of "soma" comes before the type test
ValidateInputList_EmptyFirst(data, op) ==
    IF Falsy(data) /\ op = "soma"
    THEN Raise(Error("ValueError", "A lista nao pode estar vazia", 0, ""))
    ELSE IF ~IsList(data)
    THEN Raise(Error("TypeError", "A entrada deve ser uma lista", 0, TypeName(data)))
    ELSE Yield(data.items)

\* _validate_input_list(data, operation_name), lines 23-32
ValidateInputList(data, op) ==
    IF ~IsList(data)
    THEN Raise(Error("TypeError", "A entrada deve ser uma lista", 0, TypeName(data)))
    ELSE IF data = PyNone
    THEN Raise(Error("ValueError", "A lista nao pode ser None", 0, ""))
    ELSE IF data.items = <<>> /\ op = "soma"
    THEN Raise(Error("ValueError", "A lista nao pode estar vazia", 0, ""))
    ELSE IF data.items = <<>> /\ op = "média"
    THEN Yield(<<>>)
    ELSE Yield(data.items)

\* the body of the try of lines 50-54: int(float(item)), the comparison with
\* float(item), and the value appended
ConvertFloat(f, position) ==
    IF ~f.ok
    THEN Raise(Error("ValueError", "could not convert string to float", 0, ""))
    ELSE IF f.cls = "inf"
    THEN Raise(Error("OverflowError", "cannot convert float infinity to integer", 0, ""))
    ELSE IF f.cls = "nan"
    THEN Raise(Error("ValueError", "cannot convert float NaN to integer", 0, ""))
    ELSE IF IntNeFloat(Trunc(f.num, f.den), f)
    THEN Raise(Error("ValueError", "perda de informacao", position, ""))
    ELSE Yield(Trunc(f.num, f.den))

\* mutant: int(item) without float() first, which rejects a str with a point
TryConvert_IntOfStr(item, position) ==
    IF item.t = "str" /\ \E i \in 1..Len(item.s) : item.s[i] = "."
    THEN Raise(Error("ValueError", "invalid literal for int()", 0, ""))
    ELSE ConvertFloat(ToFloat(item), position)

TryConvert(item, position) == ConvertFloat(ToFloat(item), position)

\* the handler of lines 55-56: any ValueError raised in the try, the one of
\* line 53 included, is replaced; other exception classes pass through
ExceptValueError(r, position) ==
    IF r.raised /\ r.error.exc = "ValueError"
    THEN Raise(Error("ValueError", "nao pode ser convertido para inteiro", position, ""))
    ELSE r

\* mutant: the test for None of line 45 is missing
ValidateItem_NoNoneCheck(item, i) ==
    IF IsInstanceInt(item)
    THEN Yield(item.v)
    ELSE IF IsFloatOrStr(item)
    THEN ExceptValueError(TryConvert(item, i + 1), i + 1)
    ELSE Raise(Error("ValueError", "Tipo encontrado", i + 1, TypeName(item)))

\* mutant: every element that is not an int goes through int(float(item)),
\* and float() of a dict or a list raises a TypeError no handler catches
ValidateItem_CoercesAll(item, i) ==
    IF item = PyNone
    THEN Raise(Error("ValueError", "nao pode ser None", i + 1, ""))
    ELSE IF IsInstanceInt(item)
    THEN Yield(item.v)
    ELSE IF IsFloatOrStr(item)
    THEN ExceptValueError(TryConvert(item, i + 1), i + 1)
    ELSE Raise(Error("TypeError", "float() argument must be a string or a real number", 0, ""))

\* one iteration of the for loop, lines 44-58, on the element at the 0-based
\* index i: the exception it raises or the integer it appends
ValidateItem(item, i) ==
    IF item = PyNone
    THEN Raise(Error("ValueError", "nao pode ser None", i + 1, ""))
    ELSE IF IsInstanceInt(item)
    THEN Yield(item.v)
    ELSE IF IsFloatOrStr(item)
    THEN ExceptValueError(TryConvert(item, i + 1), i + 1)
    ELSE Raise(Error("ValueError", "Tipo encontrado", i + 1, TypeName(item)))

\* sum(validated_list)
RECURSIVE Sum(_)
Sum(xs) == IF xs = <<>> THEN 0 ELSE Head(xs) + Sum(Tail(xs))

RECURSIVE Gcd(_, _)
Gcd(a, b) == IF b = 0 THEN a ELSE Gcd(b, a % b)

Abs(a) == IF a < 0 THEN -a ELSE a

\* a / b of two ints, b > 0: the float of value a/b, kept in lowest terms
TrueDiv(a, b) ==
    LET g == Gcd(Abs(a), b)
    IN  PyFloat(a \div g, b \div g)

\* mutant: the sum starts at the second element
SumArith_SkipsFirst(validated_list) ==
    IF validated_list = <<>>
    THEN Raise(Error("ValueError", "A lista nao pode estar vazia", 0, ""))
    ELSE Yield(PyInt(Sum(Tail(validated_list))))

\* mutant: the later elements are subtracted from the first
SumArith_Subtracts(validated_list) ==
    IF validated_list = <<>>
    THEN Raise(Error("ValueError", "A lista nao pode estar vazia", 0, ""))
    ELSE Yield(PyInt(Head(validated_list) - Sum(Tail(validated_list))))

\* lines 8-10 of sum_numbers, on the list the validator returned
SumArith(validated_list) ==
    IF validated_list = <<>>
    THEN Raise(Error("ValueError", "A lista nao pode estar vazia", 0, ""))
    ELSE Yield(PyInt(Sum(validated_list)))

\* mutant: integer division, sum // len
AverageArith_FloorDiv(validated_list) ==
    IF validated_list = <<>>
    THEN Yield(PyNone)
    ELSE Yield(PyFloat(Sum(validated_list) \div Len(validated_list), 1))

\* mutant: the test for the empty list is missing, the division raises
AverageArith_NoEmptyCheck(validated_list) ==
    IF validated_list = <<>>
    THEN Raise(Error("ZeroDivisionError", "division by zero", 0, ""))
    ELSE Yield(TrueDiv(Sum(validated_list), Len(validated_list)))

\* mutant: "no value" whenever the sum is 0, not only for the empty list
AverageArith_NoneOnZeroSum(validated_list) ==
    IF Sum(validated_list) = 0
    THEN Yield(PyNone)
    ELSE Yield(TrueDiv(Sum(validated_list), Len(validated_list)))

\* lines 17-19 of calculate_average, on the list the validator returned
AverageArith(validated_list) ==
    IF validated_list = <<>>
    THEN Yield(PyNone)
    ELSE Yield(TrueDiv(Sum(validated_list), Len(validated_list)))

(***************************************************************************)
(* Inputs of the model: the values a caller passes.                        *)
(***************************************************************************)
\* the elements lists of every length up to MaxLen are made of
StrInputs == { <<"5">>, <<"5", ".", "0">>, <<"2", ".", "5">>, <<"a">>, <<"n", "a", "n">> }

Elements ==
    { PyNone, PyInt(0), PyInt(2), PyInt(-3), PyBool(TRUE), PyBool(FALSE),
      PyFloat(3, 1), PyFloat(7, 2), PyInf, PyDict, PyList(<<PyInt(1)>>) }
    \cup { PyStr(s) : s \in StrInputs }

\* further elements, tried alone in a list of one
EdgeStrInputs ==
    { <<>>, <<" ", "7", " ">>, <<"-", "4">>, <<"+", "4">>, <<"5", "e", "1">>,
      <<"2", "5", "e", "-", "1">>, <<"-", "2", ".", "5">>, <<".", "5">>,
      <<"5", ".">>, <<".">>, <<"5", "a">>, <<"i", "n", "f">>,
      <<"-", "i", "n", "f">>, <<"i", "n", "f", "i", "n", "i", "t", "y">> }

EdgeElements ==
    { PyNaN, PyFloat(-7, 2), PyFloat(-3, 1), PyFloat(1, 4), PyList(<<>>) }
    \cup { PyStr(s) : s \in EdgeStrInputs }

RECURSIVE SeqsUpTo(_, _)
SeqsUpTo(S, n) ==
    IF n = 0
    THEN { <<>> }
    ELSE SeqsUpTo(S, n - 1)
         \cup { Append(xs, x) : xs \in SeqsUpTo(S, n - 1), x \in S }

NonLists ==
    { PyNone, PyInt(0), PyInt(5), PyBool(TRUE), PyFloat(7, 2), PyDict,
      PyStr(<<>>), PyStr(<<"a">>) }

RawInputs ==
    NonLists
    \cup { PyList(xs) : xs \in SeqsUpTo(Elements, MaxLen) }
    \cup { PyList(<<x>>) : x \in EdgeElements }

Operations == {"soma", "média"}

(***************************************************************************)
(* The call as a state machine.                                            *)
(*   idle            no call made yet                                      *)
(*   not_validated   sum_numbers / calculate_average entered               *)
(*   validating      in the for loop of _validate_integer_list             *)
(*   validated       _validate_integer_list returned integer_list          *)
(*   done            the call returned or raised (outcome)                 *)
(* and back to idle once the caller has taken the outcome.                 *)
(***************************************************************************)
NoOutcome == [status |-> "none", value |-> PyNone, error |-> NoError]
Returned(x) == [status |-> "returned", value |-> x, error |-> NoError]
Raised(e) == [status |-> "raised", value |-> PyNone, error |-> e]

Callers == 1..NumCallers

\* the frame of a caller that is in no call
IdleFrame ==
    [ numeros |-> PyNone, operation_name |-> "soma", pc |-> "idle",
      index |-> 0, integer_list |-> <<>>, outcome |-> NoOutcome ]

NoRequest == [route |-> "", numeros |-> PyNone]
NoResponse == [status |-> 0, detail |-> NoError, result |-> PyNone,
               numeros_entrada |-> PyNone, usuario |-> "", nivel_acesso |-> ""]

\* a token as the client sends it: none, a string that is no JWT, or a JWT
\* with its claims and the key it is signed with
NoToken == [kind |-> "none", sub |-> "", nivel_acesso |-> "", exp |-> 0, key |-> ""]
OpaqueToken == [kind |-> "opaque", sub |-> "", nivel_acesso |-> "", exp |-> 0, key |-> ""]
Jwt(sub, nivel, exp, key) ==
    [kind |-> "jwt", sub |-> sub, nivel_acesso |-> nivel, exp |-> exp, key |-> key]

\* the payload of a verified token; NoPayload stands for None
NoPayload == [valid |-> FALSE, sub |-> "", nivel_acesso |-> "", exp |-> 0]
Payload(token) ==
    [valid |-> TRUE, sub |-> token.sub, nivel_acesso |-> token.nivel_acesso,
     exp |-> token.exp]

NoTokenRequest == [route |-> "", username |-> "", password |-> ""]
NoTokenResponse == [status |-> 0, access_token |-> NoToken, nivel_acesso |-> ""]

\* no call, no caller in a call, no request
Init ==
    /\ numeros = PyNone
    /\ operation_name = "soma"
    /\ pc = "idle"
    /\ index = 0
    /\ integer_list = <<>>
    /\ outcome = NoOutcome
    /\ frames = [c \in Callers |-> IdleFrame]
    /\ seen = {}
    /\ request = NoRequest
    /\ hpc = "idle"
    /\ numeros_entrada = PyNone
    /\ response = NoResponse
    /\ bearer = NoToken
    /\ usuario = NoPayload
    /\ now = 0
    /\ held = NoToken
    /\ token_request = NoTokenRequest
    /\ token_response = NoTokenResponse
    /\ right_credentials_used = FALSE

\* a caller calls sum_numbers(raw) or calculate_average(raw)
Call(raw, op) ==
    /\ pc = "idle"
    /\ numeros' = raw
    /\ operation_name' = op
    /\ pc' = "not_validated"
    /\ index' = 0
    /\ integer_list' = <<>>
    /\ outcome' = NoOutcome

\* lines 35-43: the call of _validate_input_list, the early return for the
\* empty list of "média", and integer_list = []
EnterValidation ==
    /\ pc = "not_validated"
    /\ LET r == ValidateInputList(numeros, operation_name)
       IN  IF r.raised
           THEN /\ pc' = "done"
                /\ outcome' = Raised(r.error)
           ELSE IF r.value = <<>> /\ operation_name = "média"
           THEN /\ pc' = "validated"
                /\ outcome' = outcome
           ELSE /\ pc' = "validating"
                /\ outcome' = outcome
    /\ index' = 0
    /\ integer_list' = <<>>
    /\ UNCHANGED <<numeros, operation_name>>

\* mutant: the loop puts each integer at the front of integer_list
LoopStep_Prepends ==
    /\ pc = "validating"
    /\ index < Len(numeros.items)
    /\ LET r == ValidateItem(numeros.items[index + 1], index)
       IN  IF r.raised
           THEN /\ pc' = "done"
                /\ outcome' = Raised(r.error)
                /\ integer_list' = integer_list
           ELSE /\ pc' = "validating"
                /\ outcome' = outcome
                /\ integer_list' = <<r.value>> \o integer_list
    /\ index' = index + 1
    /\ UNCHANGED <<numeros, operation_name>>

\* mutant: the loop writes each converted integer back into the input list
LoopStep_CoercesInPlace ==
    /\ pc = "validating"
    /\ index < Len(numeros.items)
    /\ LET r == ValidateItem(numeros.items[index + 1], index)
       IN  IF r.raised
           THEN /\ pc' = "done"
                /\ outcome' = Raised(r.error)
                /\ integer_list' = integer_list
                /\ numeros' = numeros
           ELSE /\ pc' = "validating"
                /\ outcome' = outcome
                /\ integer_list' = Append(integer_list, r.value)
                /\ numeros' = PyList([numeros.items EXCEPT
                                        ![index + 1] = PyInt(r.value)])
    /\ index' = index + 1
    /\ UNCHANGED operation_name

\* lines 44-58: one iteration of the for loop
LoopStep ==
    /\ pc = "validating"
    /\ index < Len(numeros.items)
    /\ LET r == ValidateItem(numeros.items[index + 1], index)
       IN  IF r.raised
           THEN /\ pc' = "done"
                /\ outcome' = Raised(r.error)
                /\ integer_list' = integer_list
           ELSE /\ pc' = "validating"
                /\ outcome' = outcome
                /\ integer_list' = Append(integer_list, r.value)
    /\ index' = index + 1
    /\ UNCHANGED <<numeros, operation_name>>

\* mutant: the loop may be left before the last element
LoopExit_Early ==
    /\ pc = "validating"
    /\ index <= Len(numeros.items)
    /\ pc' = "validated"
    /\ UNCHANGED <<numeros, operation_name, index, integer_list, outcome>>

\* line 59: the loop is exhausted, return integer_list
LoopExit ==
    /\ pc = "validating"
    /\ index = Len(numeros.items)
    /\ pc' = "validated"
    /\ UNCHANGED <<numeros, operation_name, index, integer_list, outcome>>

\* sum_numbers lines 8-10 / calculate_average lines 17-19
Arith ==
    /\ pc = "validated"
    /\ LET r == IF operation_name = "soma"
                THEN SumArith(integer_list)
                ELSE AverageArith(integer_list)
       IN  outcome' = IF r.raised THEN Raised(r.error) ELSE Returned(r.value)
    /\ pc' = "done"
    /\ UNCHANGED <<numeros, operation_name, index, integer_list>>

\* the caller has the outcome; the frame of the call and its locals are gone
Return ==
    /\ pc = "done"
    /\ numeros' = PyNone
    /\ operation_name' = "soma"
    /\ pc' = "idle"
    /\ index' = 0
    /\ integer_list' = <<>>
    /\ outcome' = NoOutcome

\* one caller, calling the library directly
Next ==
    \/ /\ pc = "idle"
       /\ \E raw \in RawInputs, op \in Operations : Call(raw, op)
       /\ UNCHANGED <<cvars, hvars, avars>>
    \/ EnterValidation /\ UNCHANGED <<cvars, hvars, avars>>
    \/ LoopStep /\ UNCHANGED <<cvars, hvars, avars>>
    \/ LoopExit /\ UNCHANGED <<cvars, hvars, avars>>
    \/ Arith /\ UNCHANGED <<cvars, hvars, avars>>
    \/ Return /\ UNCHANGED <<cvars, hvars, avars>>

(***************************************************************************)
(* Concurrent callers.  Every call of sum_numbers / calculate_average has  *)
(* its own frame (its arguments and locals); the class Numbers has no      *)
(* attribute, and each request of the server makes its own instance        *)
(* (Numbers() in somar_vetor, lines 259-260).  The calls of the callers    *)
(* interleave step by step.  seen is a history of the calls that returned: *)
(* the input, the operation and the outcome the caller took.               *)
(***************************************************************************)
\* the frame of a call that has just been entered
EnteredFrame(raw, op) ==
    [ numeros |-> raw, operation_name |-> op, pc |-> "not_validated",
      index |-> 0, integer_list |-> <<>>, outcome |-> NoOutcome ]

\* the inputs of the concurrent callers: a valid list and a list that fails
\* at its second element
ConcurrentInputs ==
    { PyList(<<PyInt(2), PyStr(<<"5", ".", "0">>)>>),
      PyList(<<PyInt(-3), PyNone>>) }

\* caller c calls sum_numbers(raw) or calculate_average(raw)
CCall(c, raw, op) ==
    /\ frames[c].pc = "idle"
    /\ frames' = [frames EXCEPT ![c] = EnteredFrame(raw, op)]
    /\ UNCHANGED seen

\* lines 35-43 in the call of caller c
CEnterValidation(c) ==
    /\ frames[c].pc = "not_validated"
    /\ LET r == ValidateInputList(frames[c].numeros, frames[c].operation_name)
       IN  frames' = [frames EXCEPT ![c] =
              IF r.raised
              THEN [@ EXCEPT !.pc = "done", !.outcome = Raised(r.error)]
              ELSE IF r.value = <<>> /\ @.operation_name = "média"
              THEN [@ EXCEPT !.pc = "validated"]
              ELSE [@ EXCEPT !.pc = "validating"]]
    /\ UNCHANGED seen

\* mutant: the loop of calculate_average leaves out an element it cannot
\* convert instead of raising
CLoopStep_MediaSkipsInvalid(c) ==
    /\ frames[c].pc = "validating"
    /\ frames[c].index < Len(frames[c].numeros.items)
    /\ LET r == ValidateItem(frames[c].numeros.items[frames[c].index + 1],
                             frames[c].index)
       IN  frames' = [frames EXCEPT ![c] =
              IF r.raised /\ frames[c].operation_name = "soma"
              THEN [@ EXCEPT !.pc = "done", !.outcome = Raised(r.error),
                             !.index = @ + 1]
              ELSE IF r.raised
              THEN [@ EXCEPT !.index = @ + 1]
              ELSE [@ EXCEPT !.integer_list = Append(@, r.value),
                             !.index = @ + 1]]
    /\ UNCHANGED seen

\* mutant: integer_list is an attribute of one Numbers instance all callers
\* share, so an append of one call shows in the list of every call
CLoopStep_SharedList(c) ==
    /\ frames[c].pc = "validating"
    /\ frames[c].index < Len(frames[c].numeros.items)
    /\ LET r == ValidateItem(frames[c].numeros.items[frames[c].index + 1],
                             frames[c].index)
       IN  frames' = [d \in Callers |->
              IF r.raised
              THEN IF d = c
                   THEN [frames[d] EXCEPT !.pc = "done", !.outcome = Raised(r.error),
                                          !.index = @ + 1]
                   ELSE frames[d]
              ELSE IF d = c
                   THEN [frames[d] EXCEPT !.integer_list = Append(@, r.value),
                                          !.index = @ + 1]
                   ELSE [frames[d] EXCEPT !.integer_list = Append(@, r.value)]]
    /\ UNCHANGED seen

\* lines 44-58: one iteration of the for loop in the call of caller c
CLoopStep(c) ==
    /\ frames[c].pc = "validating"
    /\ frames[c].index < Len(frames[c].numeros.items)
    /\ LET r == ValidateItem(frames[c].numeros.items[frames[c].index + 1],
                             frames[c].index)
       IN  frames' = [frames EXCEPT ![c] =
              IF r.raised
              THEN [@ EXCEPT !.pc = "done", !.outcome = Raised(r.error),
                             !.index = @ + 1]
              ELSE [@ EXCEPT !.integer_list = Append(@, r.value),
                             !.index = @ + 1]]
    /\ UNCHANGED seen

\* line 59 in the call of caller c
CLoopExit(c) ==
    /\ frames[c].pc = "validating"
    /\ frames[c].index = Len(frames[c].numeros.items)
    /\ frames' = [frames EXCEPT ![c].pc = "validated"]
    /\ UNCHANGED seen

\* sum_numbers lines 8-10 / calculate_average lines 17-19 in the call of c
CArith(c) ==
    /\ frames[c].pc = "validated"
    /\ LET r == IF frames[c].operation_name = "soma"
                THEN SumArith(frames[c].integer_list)
                ELSE AverageArith(frames[c].integer_list)
       IN  frames' = [frames EXCEPT ![c] =
              [@ EXCEPT !.pc = "done",
                        !.outcome = IF r.raised THEN Raised(r.error)
                                    ELSE Returned(r.value)]]
    /\ UNCHANGED seen

\* caller c takes the outcome; the frame of the call is gone
CReturn(c) ==
    /\ frames[c].pc = "done"
    /\ seen' = seen \cup { [ numeros |-> frames[c].numeros,
                             operation_name |-> frames[c].operation_name,
                             outcome |-> frames[c].outcome ] }
    /\ frames' = [frames EXCEPT ![c] = IdleFrame]

ConcNext ==
    \/ /\ \E c \in Callers, raw \in ConcurrentInputs, op \in Operations :
             CCall(c, raw, op)
       /\ UNCHANGED <<vars, hvars, avars>>
    \/ (\E c \in Callers : CEnterValidation(c)) /\ UNCHANGED <<vars, hvars, avars>>
    \/ (\E c \in Callers : CLoopStep(c)) /\ UNCHANGED <<vars, hvars, avars>>
    \/ (\E c \in Callers : CLoopExit(c)) /\ UNCHANGED <<vars, hvars, avars>>
    \/ (\E c \in Callers : CArith(c)) /\ UNCHANGED <<vars, hvars, avars>>
    \/ (\E c \in Callers : CReturn(c)) /\ UNCHANGED <<vars, hvars, avars>>

(***************************************************************************)
(* Two callers of sum_numbers, the second on a permutation of the list of  *)
(* the first.                                                              *)
(***************************************************************************)
\* elements of valid lists
PermElements ==
    { PyInt(2), PyInt(-3), PyStr(<<"5", ".", "0">>), PyFloat(3, 1) }

\* the list xs read in the order f, a permutation of its positions
Permuted(xs, f) == [i \in 1..Len(xs) |-> xs[f[i]]]

IsPermutation(xs, ys) ==
    /\ Len(xs) = Len(ys)
    /\ \E f \in Permutations(1..Len(xs)) : ys = Permuted(xs, f)

PermInit ==
    /\ numeros = PyNone
    /\ operation_name = "soma"
    /\ pc = "idle"
    /\ index = 0
    /\ integer_list = <<>>
    /\ outcome = NoOutcome
    /\ \E xs \in SeqsUpTo(PermElements, MaxLen) \ {<<>>} :
          \E f \in Permutations(1..Len(xs)) :
             frames = [c \in Callers |->
                         IF c = 1 THEN EnteredFrame(PyList(xs), "soma")
                         ELSE IF c = 2
                         THEN EnteredFrame(PyList(Permuted(xs, f)), "soma")
                         ELSE IdleFrame]
    /\ seen = {}
    /\ request = NoRequest
    /\ hpc = "idle"
    /\ numeros_entrada = PyNone
    /\ response = NoResponse
    /\ bearer = NoToken
    /\ usuario = NoPayload
    /\ now = 0
    /\ held = NoToken
    /\ token_request = NoTokenRequest
    /\ token_response = NoTokenResponse
    /\ right_credentials_used = FALSE

PermNext ==
    \/ (\E c \in Callers : CEnterValidation(c)) /\ UNCHANGED <<vars, hvars, avars>>
    \/ (\E c \in Callers : CLoopStep(c)) /\ UNCHANGED <<vars, hvars, avars>>
    \/ (\E c \in Callers : CLoopExit(c)) /\ UNCHANGED <<vars, hvars, avars>>
    \/ (\E c \in Callers : CArith(c)) /\ UNCHANGED <<vars, hvars, avars>>

(***************************************************************************)
(* The HTTP layer: POST /somar and POST /calcular_media of                 *)
(* API-main-server-prod.py, for a request whose token was accepted.        *)
(*   idle        no request                                                *)
(*   received       the body is decoded, the token not yet verified         *)
(*   authenticated  the token is accepted, NumerosEntrada not yet built     *)
(*   handler     somar_vetor / calcular_media_vetor entered                *)
(*   in_core     in sum_numbers / calculate_average                        *)
(*   responded   the answer is sent                                        *)
(***************************************************************************)
Routes == {"/somar", "/calcular_media"}

OperationOf(route) == IF route = "/somar" THEN "soma" ELSE "média"

\* the values of the elements of a decoded numeros list
JsonElements ==
    { PyInt(2), PyInt(-3), PyStr(<<"5">>), PyFloat(3, 1), PyFloat(7, 2),
      PyStr(<<"2", ".", "5">>), PyStr(<<"5", "e", "1">>), PyStr(<<"a">>),
      PyNone, PyDict }

\* decoded numeros values that are not a list
JsonNonLists == { PyStr(<<"a">>), PyInt(5), PyNone, PyDict }

JsonBodies ==
    JsonNonLists \cup { PyList(xs) : xs \in SeqsUpTo(JsonElements, MaxLen) }

\* a str element of a List[int] field: an optional sign and digits
IsIntLiteral(cs) ==
    LET ds == IF cs # <<>> /\ Head(cs) \in {"+", "-"} THEN Tail(cs) ELSE cs
    IN  ds # <<>> /\ \A i \in 1..Len(ds) : IsDigit(ds[i])

IntLiteralValue(cs) ==
    IF Head(cs) = "-" THEN 0 - DigitsValue(Tail(cs), Len(cs) - 1)
    ELSE IF Head(cs) = "+" THEN DigitsValue(Tail(cs), Len(cs) - 1)
    ELSE DigitsValue(cs, Len(cs))

\* one element of the field numeros: List[int]: an int is kept, a float
\* without fraction and a str of an integer become that int, anything else
\* is refused
PydanticInt(item) ==
    IF item.t = "int"
    THEN Yield(item.v)
    ELSE IF item.t = "float" /\ item.cls = "fin" /\ item.den = 1
    THEN Yield(item.num)
    ELSE IF item.t = "str" /\ IsIntLiteral(item.s)
    THEN Yield(IntLiteralValue(item.s))
    ELSE Raise(Error("RequestValidationError", "Input should be a valid integer", 0, ""))

\* mutant: the field is declared List[Any], every list passes as it is
NumerosEntradaOf_Any(value) ==
    IF ~IsList(value)
    THEN Raise(Error("RequestValidationError", "Input should be a valid list", 0, ""))
    ELSE Yield(value)

\* mutant: a value that is not a list passes the model as it is
NumerosEntradaOf_NoListCheck(value) ==
    IF ~IsList(value)
    THEN Yield(value)
    ELSE IF \E i \in 1..Len(value.items) : PydanticInt(value.items[i]).raised
    THEN Raise(Error("RequestValidationError", "Input should be a valid integer", 0, ""))
    ELSE Yield(PyList([i \in 1..Len(value.items) |->
                         PyInt(PydanticInt(value.items[i]).value)]))

\* NumerosEntrada(numeros: List[int]) built from the decoded body, lines 91-92
NumerosEntradaOf(value) ==
    IF ~IsList(value)
    THEN Raise(Error("RequestValidationError", "Input should be a valid list", 0, ""))
    ELSE IF \E i \in 1..Len(value.items) : PydanticInt(value.items[i]).raised
    THEN Raise(Error("RequestValidationError", "Input should be a valid integer", 0, ""))
    ELSE Yield(PyList([i \in 1..Len(value.items) |->
                         PyInt(PydanticInt(value.items[i]).value)]))

\* an answer that carries an error or a status only
Answer(st, det) ==
    [status |-> st, detail |-> det, result |-> PyNone,
     numeros_entrada |-> PyNone, usuario |-> "", nivel_acesso |-> ""]

\* mutant: the handlers answer a ValueError with 400 and a TypeError with 422
HandlerResponse_Swapped(o, lista, u) ==
    IF o.status = "returned"
    THEN [status |-> 200, detail |-> NoError, result |-> o.value,
          numeros_entrada |-> lista, usuario |-> u.sub,
          nivel_acesso |-> u.nivel_acesso]
    ELSE IF o.error.exc = "ValueError"
    THEN Answer(400, o.error)
    ELSE IF o.error.exc = "TypeError"
    THEN Answer(422, o.error)
    ELSE Answer(500, Error("Exception", "Erro interno do servidor", 0, ""))

\* mutant: the answer echoes the list without its first element
HandlerResponse_EchoesTail(o, lista, u) ==
    IF o.status = "returned"
    THEN [status |-> 200, detail |-> NoError, result |-> o.value,
          numeros_entrada |-> IF lista.items = <<>> THEN lista
                              ELSE PyList(Tail(lista.items)),
          usuario |-> u.sub, nivel_acesso |-> u.nivel_acesso]
    ELSE IF o.error.exc = "ValueError"
    THEN Answer(422, o.error)
    ELSE IF o.error.exc = "TypeError"
    THEN Answer(400, o.error)
    ELSE Answer(500, Error("Exception", "Erro interno do servidor", 0, ""))

\* the return and the except clauses of somar_vetor (lines 261-279) and of
\* calcular_media_vetor (lines 290-310), on the outcome o of the core, the
\* list handed to the core and the payload u of the token
HandlerResponse(o, lista, u) ==
    IF o.status = "returned"
    THEN [status |-> 200, detail |-> NoError, result |-> o.value,
          numeros_entrada |-> lista, usuario |-> u.sub,
          nivel_acesso |-> u.nivel_acesso]
    ELSE IF o.error.exc = "ValueError"
    THEN Answer(422, o.error)
    ELSE IF o.error.exc = "TypeError"
    THEN Answer(400, o.error)
    ELSE Answer(500, Error("Exception", "Erro interno do servidor", 0, ""))

\* gerar_token_jwt(data, expires_delta) at time t, lines 165-171
GerarTokenJwt(sub, nivel, expires_delta, t) ==
    Jwt(sub, nivel, t + expires_delta, SECRET_KEY)

\* mutant: the expiry of the token is not checked
VerificarTokenJwt_NoExpiry(token, t) ==
    IF token.kind = "jwt" /\ token.key = SECRET_KEY
    THEN Payload(token)
    ELSE NoPayload

\* mutant: the signature of the token is not checked
VerificarTokenJwt_NoSignature(token, t) ==
    IF token.kind = "jwt" /\ ~(token.exp < t)
    THEN Payload(token)
    ELSE NoPayload

\* verificar_token_jwt(token) at time t, lines 173-178: jwt.decode raises a
\* JWTError for a string that is no JWT, for a signature made with another
\* key and for an expiry that is past
VerificarTokenJwt(token, t) ==
    IF token.kind = "jwt" /\ token.key = SECRET_KEY /\ ~(token.exp < t)
    THEN Payload(token)
    ELSE NoPayload

\* oauth2_scheme and obter_usuario_atual_jwt, lines 32 and 180-190: the
\* payload, or NoPayload where they raise the HTTPException 401
ObterUsuarioAtualJwt(token, t) ==
    IF token.kind = "none"
    THEN NoPayload
    ELSE VerificarTokenJwt(token, t)

\* a request arrives with its bearer token and its JSON body is decoded
HReceive(route, body, token) ==
    /\ hpc = "idle"
    /\ request' = [route |-> route, numeros |-> body]
    /\ bearer' = token
    /\ hpc' = "received"
    /\ UNCHANGED <<numeros_entrada, response, usuario>>

\* the dependency obter_usuario_atual_jwt of both routes: 401 and the
\* handler is not entered, or the payload of the token
HAuthenticate ==
    /\ hpc = "received"
    /\ request.route \in Routes
    /\ LET u == ObterUsuarioAtualJwt(bearer, now)
       IN  IF ~u.valid
           THEN /\ hpc' = "responded"
                /\ response' = Answer(401, Error("HTTPException",
                                  "Credenciais invalidas", 0, ""))
                /\ usuario' = usuario
           ELSE /\ hpc' = "authenticated"
                /\ response' = response
                /\ usuario' = u
    /\ UNCHANGED <<request, bearer, numeros_entrada>>

\* the framework builds the parameter numeros_entrada: NumerosEntrada; a
\* body the model refuses is answered 422 and the handler is not entered
HBuildModel ==
    /\ hpc = "authenticated"
    /\ LET r == NumerosEntradaOf(request.numeros)
       IN  IF r.raised
           THEN /\ hpc' = "responded"
                /\ response' = Answer(422, r.error)
                /\ numeros_entrada' = numeros_entrada
           ELSE /\ hpc' = "handler"
                /\ response' = response
                /\ numeros_entrada' = r.value
    /\ UNCHANGED <<request, bearer, usuario>>

\* lines 257-260 / 286-289: lista_numeros = numeros_entrada.numeros and the
\* call of the core on it
HCallCore ==
    /\ hpc = "handler"
    /\ Call(numeros_entrada, OperationOf(request.route))
    /\ hpc' = "in_core"
    /\ UNCHANGED <<request, numeros_entrada, response, bearer, usuario>>

\* the core returned or raised: the handler answers
HRespond ==
    /\ hpc = "in_core"
    /\ pc = "done"
    /\ response' = HandlerResponse(outcome, numeros_entrada, usuario)
    /\ hpc' = "responded"
    /\ UNCHANGED <<request, numeros_entrada, bearer, usuario>>

\* GET /saude, lines 314-332: answered without any dependency
HSaude(token) ==
    /\ hpc = "idle"
    /\ request' = [route |-> "/saude", numeros |-> PyNone]
    /\ bearer' = token
    /\ response' = [Answer(200, NoError) EXCEPT !.result = PyStr(<<"O", "K">>)]
    /\ hpc' = "responded"
    /\ UNCHANGED <<numeros_entrada, usuario>>

\* the client has the answer; the request and its call are gone
HDone ==
    /\ hpc = "responded"
    /\ request' = NoRequest
    /\ hpc' = "idle"
    /\ numeros_entrada' = PyNone
    /\ response' = NoResponse
    /\ bearer' = NoToken
    /\ usuario' = NoPayload
    /\ numeros' = PyNone
    /\ operation_name' = "soma"
    /\ pc' = "idle"
    /\ index' = 0
    /\ integer_list' = <<>>
    /\ outcome' = NoOutcome

tvars == <<now, held, token_request, token_response, right_credentials_used>>

\* the token of an administrator issued at time 0
AdminTokenAtStart ==
    GerarTokenJwt("admin", "admin", ACCESS_TOKEN_EXPIRE_MINUTES, 0)

\* requests of a client that holds an accepted token
HttpNext ==
    \/ /\ hpc = "idle"
       /\ \E route \in Routes, body \in JsonBodies :
             HReceive(route, body, AdminTokenAtStart)
       /\ UNCHANGED <<vars, cvars, tvars>>
    \/ HAuthenticate /\ UNCHANGED <<vars, cvars, tvars>>
    \/ HBuildModel /\ UNCHANGED <<vars, cvars, tvars>>
    \/ HCallCore /\ UNCHANGED <<cvars, tvars>>
    \/ EnterValidation /\ UNCHANGED <<cvars, hvars, avars>>
    \/ LoopStep /\ UNCHANGED <<cvars, hvars, avars>>
    \/ LoopExit /\ UNCHANGED <<cvars, hvars, avars>>
    \/ Arith /\ UNCHANGED <<cvars, hvars, avars>>
    \/ HRespond /\ UNCHANGED <<vars, cvars, tvars>>
    \/ HDone /\ UNCHANGED <<cvars, tvars>>

(***************************************************************************)
(* The token endpoints and the clock.                                      *)
(***************************************************************************)
\* the stored pairs, admin_credentials.json and tester_credentials.json as
\* the server writes them (lines 358-372)
AdminCredentials == [username |-> "admin", password |-> "admin"]
TesterCredentials == [username |-> "tester", password |-> "tester"]

\* the pairs a client submits
SubmittedCredentials ==
    { AdminCredentials, TesterCredentials,
      [username |-> "admin", password |-> "x"],
      [username |-> "tester", password |-> "x"] }

\* a token the client made itself: the claims of an administrator, signed
\* with a key that is not the server's
ForgedToken == Jwt("admin", "admin", MaxTime + ACCESS_TOKEN_EXPIRE_MINUTES, "not-the-key")

\* numeros values of the requests made with tokens
AuthBodies == { PyList(<<PyInt(2), PyInt(-3)>>), PyList(<<>>) }

\* a minute passes
Tick ==
    /\ now < MaxTime
    /\ now' = now + 1
    /\ UNCHANGED <<held, token_request, token_response, right_credentials_used>>

\* POST /token_admin, lines 205-226
TokenAdmin(cred) ==
    /\ token_request' = [route |-> "/token_admin", username |-> cred.username,
                         password |-> cred.password]
    /\ IF cred = AdminCredentials
       THEN /\ token_response' =
                 [status |-> 200,
                  access_token |-> GerarTokenJwt(cred.username, "admin",
                                                 ACCESS_TOKEN_EXPIRE_MINUTES, now),
                  nivel_acesso |-> "admin"]
            /\ held' = token_response'.access_token
            /\ right_credentials_used' = TRUE
       ELSE /\ token_response' =
                 [status |-> 401, access_token |-> NoToken, nivel_acesso |-> ""]
            /\ UNCHANGED <<held, right_credentials_used>>
    /\ now' = now

\* mutant: /token_tester issues the token whatever the credentials are
TokenTester_IssuesAnyway(cred) ==
    /\ token_request' = [route |-> "/token_tester", username |-> cred.username,
                         password |-> cred.password]
    /\ token_response' =
          [status |-> 200,
           access_token |-> GerarTokenJwt(cred.username, "tester",
                                          ACCESS_TOKEN_EXPIRE_MINUTES, now),
           nivel_acesso |-> "tester"]
    /\ held' = token_response'.access_token
    /\ right_credentials_used' = (right_credentials_used \/ cred = TesterCredentials)
    /\ now' = now

\* POST /token_tester, lines 227-248
TokenTester(cred) ==
    /\ token_request' = [route |-> "/token_tester", username |-> cred.username,
                         password |-> cred.password]
    /\ IF cred = TesterCredentials
       THEN /\ token_response' =
                 [status |-> 200,
                  access_token |-> GerarTokenJwt(cred.username, "tester",
                                                 ACCESS_TOKEN_EXPIRE_MINUTES, now),
                  nivel_acesso |-> "tester"]
            /\ held' = token_response'.access_token
            /\ right_credentials_used' = TRUE
       ELSE /\ token_response' =
                 [status |-> 200, access_token |-> OpaqueToken,
                  nivel_acesso |-> "tester"]
            /\ held' = OpaqueToken
            /\ right_credentials_used' = right_credentials_used
    /\ now' = now

\* the tokens a client can send: none, the one it holds, one it forged
ClientTokens == {NoToken, held, ForgedToken}

\* a client that asks for tokens, waits, and makes requests
AuthNext ==
    \/ Tick /\ UNCHANGED <<vars, cvars, hvars, bearer, usuario>>
    \/ /\ hpc = "idle"
       /\ \E cred \in SubmittedCredentials : TokenAdmin(cred)
       /\ UNCHANGED <<vars, cvars, hvars, bearer, usuario>>
    \/ /\ hpc = "idle"
       /\ \E cred \in SubmittedCredentials : TokenTester(cred)
       /\ UNCHANGED <<vars, cvars, hvars, bearer, usuario>>
    \/ /\ hpc = "idle"
       /\ \E route \in Routes, body \in AuthBodies, token \in ClientTokens :
             HReceive(route, body, token)
       /\ UNCHANGED <<vars, cvars, tvars>>
    \/ /\ hpc = "idle"
       /\ \E token \in ClientTokens : HSaude(token)
       /\ UNCHANGED <<vars, cvars, tvars>>
    \/ HAuthenticate /\ UNCHANGED <<vars, cvars, tvars>>
    \/ HBuildModel /\ UNCHANGED <<vars, cvars, tvars>>
    \/ HCallCore /\ UNCHANGED <<cvars, tvars>>
    \/ EnterValidation /\ UNCHANGED <<cvars, hvars, avars>>
    \/ LoopStep /\ UNCHANGED <<cvars, hvars, avars>>
    \/ LoopExit /\ UNCHANGED <<cvars, hvars, avars>>
    \/ Arith /\ UNCHANGED <<cvars, hvars, avars>>
    \/ HRespond /\ UNCHANGED <<vars, cvars, tvars>>
    \/ HDone /\ UNCHANGED <<cvars, tvars>>

\* the first position of xs whose element the loop refuses; 0 if none
RECURSIVE FirstRefused(_, _)
FirstRefused(xs, i) ==
    IF i > Len(xs) THEN 0
    ELSE IF ValidateItem(xs[i], i - 1).raised THEN i
    ELSE FirstRefused(xs, i + 1)

\* sum_numbers(raw) / calculate_average(raw) as a whole, lines 5-21: what
\* the call returns or raises
LibraryOutcome(raw, op) ==
    LET r == ValidateInputList(raw, op)
    IN  IF r.raised
        THEN Raised(r.error)
        ELSE LET xs == raw.items
                 k == FirstRefused(xs, 1)
             IN  IF k # 0
                 THEN Raised(ValidateItem(xs[k], k - 1).error)
                 ELSE LET ints == [i \in 1..Len(xs) |->
                                     ValidateItem(xs[i], i - 1).value]
                          a == IF op = "soma" THEN SumArith(ints)
                               ELSE AverageArith(ints)
                      IN  IF a.raised THEN Raised(a.error)
                          ELSE Returned(a.value)

(***************************************************************************)
(* The two operations on the same input: caller 1 calls sum_numbers and    *)
(* caller 2 calls calculate_average on the same raw value.                 *)
(***************************************************************************)
PairElements ==
    { PyNone, PyInt(2), PyBool(TRUE), PyFloat(3, 1), PyFloat(7, 2),
      PyStr(<<"5", ".", "0">>), PyStr(<<"2", ".", "5">>), PyStr(<<"a">>) }

PairInputs ==
    NonLists
    \cup { PyList(xs) : xs \in SeqsUpTo(PairElements, MaxLen) }
    \cup { PyList(<<x>>) : x \in {PyInf, PyNaN, PyDict, PyStr(<<"5", "e", "1">>)} }

PairInit ==
    /\ numeros = PyNone
    /\ operation_name = "soma"
    /\ pc = "idle"
    /\ index = 0
    /\ integer_list = <<>>
    /\ outcome = NoOutcome
    /\ \E raw \in PairInputs :
          frames = [c \in Callers |->
                      IF c = 1 THEN EnteredFrame(raw, "soma")
                      ELSE IF c = 2 THEN EnteredFrame(raw, "média")
                      ELSE IdleFrame]
    /\ seen = {}
    /\ request = NoRequest
    /\ hpc = "idle"
    /\ numeros_entrada = PyNone
    /\ response = NoResponse
    /\ bearer = NoToken
    /\ usuario = NoPayload
    /\ now = 0
    /\ held = NoToken
    /\ token_request = NoTokenRequest
    /\ token_response = NoTokenResponse
    /\ right_credentials_used = FALSE

(***************************************************************************)
(* The specifications.  Each leaves the variables of the other parts at    *)
(* their initial values.                                                   *)
(***************************************************************************)
Spec == Init /\ [][Next]_allvars

\* the inputs of the calls followed to their end: one element of each kind
\* the loop tells apart
OneCallElements ==
    { PyNone, PyInt(2), PyInt(-3), PyBool(TRUE), PyFloat(3, 1), PyFloat(7, 2),
      PyStr(<<"5", ".", "0">>), PyStr(<<"2", ".", "5">>), PyStr(<<"a">>), PyDict }

OneCallInputs ==
    NonLists \cup { PyList(xs) : xs \in SeqsUpTo(OneCallElements, MaxLen) }

\* one call of the library, from its start to its outcome
OneCallNext ==
    \/ /\ pc = "idle"
       /\ \E raw \in OneCallInputs, op \in Operations : Call(raw, op)
       /\ UNCHANGED <<cvars, hvars, avars>>
    \/ EnterValidation /\ UNCHANGED <<cvars, hvars, avars>>
    \/ LoopStep /\ UNCHANGED <<cvars, hvars, avars>>
    \/ LoopExit /\ UNCHANGED <<cvars, hvars, avars>>
    \/ Arith /\ UNCHANGED <<cvars, hvars, avars>>

\* the for loop goes on to its next iteration: the steps of LoopStep, which
\* is enabled exactly when the loop stands before an element
LoopAdvances ==
    /\ pc = "validating"
    /\ index < Len(numeros.items)
    /\ index' = index + 1

\* a call that has started runs to its end: the library is sequential code
\* without waiting, so each step that is enabled is taken
SpecFair ==
    /\ Init
    /\ [][OneCallNext]_allvars
    /\ WF_allvars(EnterValidation /\ UNCHANGED <<cvars, hvars, avars>>)
    /\ WF_index(LoopAdvances)
    /\ WF_allvars(LoopExit /\ UNCHANGED <<cvars, hvars, avars>>)
    /\ WF_allvars(Arith /\ UNCHANGED <<cvars, hvars, avars>>)

SpecConcurrent == Init /\ [][ConcNext]_allvars

SpecPermutation == PermInit /\ [][PermNext]_allvars

SpecPair == PairInit /\ [][PermNext]_allvars

SpecHttp == Init /\ [][HttpNext]_allvars

SpecAuth == Init /\ [][AuthNext]_allvars

(***************************************************************************)
(* The vocabulary of the specification, and reference values the checked   *)
(* properties compare the code against.                                    *)
(***************************************************************************)
Done == pc = "done"
Failed == outcome.status = "raised"
Succeeded == outcome.status = "returned"
ListGiven == IsList(numeros)

\* the failure kinds, as the exception class and message the caller sees
TypeMismatch == Failed /\ outcome.error.exc = "TypeError"
NullInput ==
    /\ Failed
    /\ outcome.error.exc = "ValueError"
    /\ outcome.error.text = "A lista nao pode ser None"
EmptyNotAllowed ==
    /\ Failed
    /\ outcome.error.exc = "ValueError"
    /\ outcome.error.text = "A lista nao pode estar vazia"
ElementInvalidAt(p) ==
    /\ Failed
    /\ outcome.error.exc = "ValueError"
    /\ outcome.error.pos = p
    /\ outcome.error.text \in
         { "nao pode ser None", "perda de informacao",
           "nao pode ser convertido para inteiro", "Tipo encontrado" }

\* reference sum of the first n entries of a sequence of integers
RECURSIVE RefSumTo(_, _)
RefSumTo(xs, n) == IF n = 0 THEN 0 ELSE RefSumTo(xs, n - 1) + xs[n]
RefSum(xs) == RefSumTo(xs, Len(xs))

\* a genuine integer: an int that is not a bool
GenuineInt(item) == item.t = "int"

\* the strings of the model that denote an integer-valued number, with the
\* integer each denotes
IntegerStrings ==
    { << <<"5">>, 5 >>, << <<"5", ".", "0">>, 5 >>, << <<" ", "7", " ">>, 7 >>,
      << <<"-", "4">>, -4 >>, << <<"+", "4">>, 4 >>, << <<"5", "e", "1">>, 50 >>,
      << <<"5", ".">>, 5 >> }

\* the strings of the model that denote a number with a fractional part
FractionalStrings ==
    { <<"2", ".", "5">>, <<"-", "2", ".", "5">>, <<".", "5">>,
      <<"2", "5", "e", "-", "1">> }

\* a string denoting an integer-valued number, or a float with no fraction
IntegerValued(item) ==
    \/ item.t = "float" /\ item.cls = "fin" /\ item.den = 1
    \/ item.t = "str" /\ \E e \in IntegerStrings : e[1] = item.s

DenotedInteger(item) ==
    IF item.t = "float"
    THEN item.num
    ELSE (CHOOSE e \in IntegerStrings : e[1] = item.s)[2]

\* a float or numeric string with a non-zero fractional part
Fractional(item) ==
    \/ item.t = "float" /\ item.cls = "fin" /\ item.den > 1
    \/ item.t = "str" /\ item.s \in FractionalStrings

\* the integer a valid element stands for
RefValue(item) == IF GenuineInt(item) THEN item.v ELSE DenotedInteger(item)
RefValid(item) == GenuineInt(item) \/ IntegerValued(item)

(***************************************************************************)
(* C1: sum_numbers on a non-empty list of genuine integers returns exactly *)
(* the arithmetic sum of its elements.                                     *)
(***************************************************************************)
C1_SumOfIntegers ==
    ( /\ Done
      /\ operation_name = "soma"
      /\ ListGiven
      /\ numeros.items # <<>>
      /\ \A i \in 1..Len(numeros.items) : GenuineInt(numeros.items[i]) )
    => outcome = Returned(PyInt(RefSum([i \in 1..Len(numeros.items) |->
                                          numeros.items[i].v])))

C1_Witness ==
    /\ Done
    /\ operation_name = "soma"
    /\ numeros = PyList(<<PyInt(2), PyInt(-3), PyInt(2)>>)
    /\ outcome = Returned(PyInt(1))

(***************************************************************************)
(* C2: calculate_average on a non-empty list that passes validation        *)
(* returns the sum of the validated integers divided by their count, by    *)
(* true division (average * count = sum), not a truncated quotient.        *)
(***************************************************************************)
C2_AverageIsQuotient ==
    ( /\ Done
      /\ operation_name = "média"
      /\ ListGiven
      /\ numeros.items # <<>>
      /\ Succeeded )
    => /\ Len(integer_list) = Len(numeros.items)
       /\ outcome.value.t = "float"
       /\ outcome.value.cls = "fin"
       /\ outcome.value.den > 0
       /\ outcome.value.num * Len(integer_list)
            = RefSum(integer_list) * outcome.value.den

C2_Witness ==
    /\ Done
    /\ operation_name = "média"
    /\ numeros = PyList(<<PyInt(2), PyInt(-3)>>)
    /\ outcome = Returned(PyFloat(-1, 2))

(***************************************************************************)
(* C3: on the empty list, calculate_average returns None without raising   *)
(* and sum_numbers fails with the value error "the list must not be        *)
(* empty"; it never returns 0.                                             *)
(***************************************************************************)
C3_EmptyListPerOperation ==
    (Done /\ numeros = PyList(<<>>))
    => /\ operation_name = "média" => outcome = Returned(PyNone)
       /\ operation_name = "soma" => EmptyNotAllowed

C3_Witness ==
    /\ Done
    /\ numeros = PyList(<<>>)
    /\ operation_name = "média"
    /\ outcome = Returned(PyNone)

(***************************************************************************)
(* C4: calculate_average returns None if and only if the input is the      *)
(* empty list; on a non-empty valid list, also one whose sum is 0, it      *)
(* returns a number.                                                       *)
(***************************************************************************)
C4_NoneOnlyForEmpty ==
    (Done /\ operation_name = "média" /\ Succeeded)
    => /\ outcome.value = PyNone <=> numeros = PyList(<<>>)
       /\ numeros # PyList(<<>>) => outcome.value.t = "float"

C4_Witness ==
    /\ Done
    /\ operation_name = "média"
    /\ numeros = PyList(<<PyInt(0), PyInt(0), PyInt(0)>>)
    /\ outcome = Returned(PyFloat(0, 1))

(***************************************************************************)
(* C5: for both operations a raw input that is not a list fails with a     *)
(* TypeError naming its runtime type; that test comes first, so neither    *)
(* the emptiness test nor any element test is made on it.                  *)
(***************************************************************************)
C5_NonListTypeMismatch ==
    ( (pc \in {"validating", "validated", "done"} /\ ~ListGiven)
      => /\ Done
         /\ outcome = Raised(Error("TypeError", "A entrada deve ser uma lista",
                                   0, TypeName(numeros)))
         /\ index = 0
         /\ integer_list = <<>> )

C5_Witness ==
    /\ Done
    /\ operation_name = "soma"
    /\ numeros = PyStr(<<>>)
    /\ TypeMismatch
    /\ outcome.error.found = "str"

(***************************************************************************)
(* C6: for both operations a raw input that is None fails with NullInput   *)
(* (the value error "the list must not be None"), a kind distinct from     *)
(* TypeMismatch.                                                           *)
(***************************************************************************)
C6_NoneIsNullInput ==
    (Done /\ numeros = PyNone) => (NullInput /\ ~TypeMismatch)

Accepted(item) == ~ValidateItem(item, 0).raised

(***************************************************************************)
(* C9 as stated: a null element anywhere in a non-empty list makes         *)
(* validation fail with "cannot be null" at that element's 1-based         *)
(* position, whatever the other elements are (read for the first null of   *)
(* the list, the one a failure can name).                                  *)
(***************************************************************************)
C9_NullAnywhere ==
    (Done /\ ListGiven) =>
      \A p \in 1..Len(numeros.items) :
         ( /\ numeros.items[p] = PyNone
           /\ \A j \in 1..(p - 1) : numeros.items[j] # PyNone )
         => outcome = Raised(Error("ValueError", "nao pode ser None", p, ""))

(***************************************************************************)
(* C9 amended: a null element before which every element is accepted      *)
(* makes validation fail with "cannot be null" at its 1-based position,    *)
(* whatever the elements after it are.                                     *)
(***************************************************************************)
C9_FirstNullRejected ==
    (Done /\ ListGiven) =>
      \A p \in 1..Len(numeros.items) :
         ( /\ numeros.items[p] = PyNone
           /\ \A j \in 1..(p - 1) : Accepted(numeros.items[j]) )
         => /\ outcome = Raised(Error("ValueError", "nao pode ser None", p, ""))
            /\ Len(integer_list) = p - 1

C9_Witness ==
    /\ Done
    /\ numeros = PyList(<<PyInt(2), PyNone, PyStr(<<"a">>)>>)
    /\ outcome = Raised(Error("ValueError", "nao pode ser None", 2, ""))

(***************************************************************************)
(* C10: a boolean element is rejected with ElementInvalid ("not a valid    *)
(* integer, type found") at its position; it is never accepted as 1 or 0   *)
(* and never enters integer_list.                                          *)
(***************************************************************************)
C10_BooleanRejected ==
    ListGiven =>
      /\ \A i \in 1..Len(integer_list) : numeros.items[i].t # "bool"
      /\ Done =>
           \A p \in 1..Len(numeros.items) :
              ( /\ numeros.items[p].t = "bool"
                /\ \A j \in 1..(p - 1) : RefValid(numeros.items[j]) )
              => outcome = Raised(Error("ValueError", "Tipo encontrado", p, "bool"))

(***************************************************************************)
(* C11: an element that is a dict or a nested list, before which every     *)
(* element is accepted, is rejected with ElementInvalid at its 1-based     *)
(* position and a message naming the type found; the validator makes no    *)
(* numeric coercion of it and does not look inside it, so nothing of it    *)
(* enters integer_list.                                                    *)
(***************************************************************************)
C11_OtherTypeRejected ==
    ListGiven =>
      /\ \A i \in 1..Len(integer_list) :
            numeros.items[i].t \notin {"dict", "list"}
      /\ Done =>
           \A p \in 1..Len(numeros.items) :
              ( /\ numeros.items[p].t \in {"dict", "list"}
                /\ \A j \in 1..(p - 1) : Accepted(numeros.items[j]) )
              => /\ ElementInvalidAt(p)
                 /\ outcome = Raised(Error("ValueError", "Tipo encontrado", p,
                                           numeros.items[p].t))
                 /\ Len(integer_list) = p - 1

C11_Witness ==
    /\ Done
    /\ numeros = PyList(<<PyInt(2), PyList(<<PyInt(1)>>), PyDict>>)
    /\ outcome = Raised(Error("ValueError", "Tipo encontrado", 2, "list"))
    /\ integer_list = <<2>>

\* an element the specification calls invalid: neither a genuine integer nor
\* a float or string denoting an integer-valued number
Invalid(item) == ~RefValid(item)

\* the 1-based position of the first invalid element of a list that has one
FirstInvalid(items) ==
    CHOOSE p \in 1..Len(items) :
       /\ Invalid(items[p])
       /\ \A j \in 1..(p - 1) : ~Invalid(items[j])

(***************************************************************************)
(* C12: validation is fail-fast.  When a non-empty list has an invalid     *)
(* element the call fails, the failure reports the 1-based position of the *)
(* first invalid element and no other, no element after it is examined     *)
(* (the loop index stops there) and no partial integer sequence is         *)
(* returned.                                                               *)
(***************************************************************************)
C12_FailFast ==
    ( /\ Done
      /\ ListGiven
      /\ \E p \in 1..Len(numeros.items) : Invalid(numeros.items[p]) )
    => /\ Failed
       /\ outcome.error.pos = FirstInvalid(numeros.items)
       /\ index = FirstInvalid(numeros.items)
       /\ Len(integer_list) = FirstInvalid(numeros.items) - 1
       /\ outcome.value = PyNone

UnparseableStrings == { <<"a">>, <<>>, <<".">>, <<"5", "a">> }

(***************************************************************************)
(* C14: the two coercion failures carry different details.  An element     *)
(* that parses to a number with a fractional part fails with "conversion   *)
(* would lose information", a string that cannot be parsed as a number     *)
(* fails with "cannot be converted", and the caller never receives the     *)
(* second detail for the first case (read for an element before which      *)
(* every element is valid).                                                *)
(***************************************************************************)
C14_DistinctDetails ==
    (Done /\ ListGiven) =>
      \A p \in 1..Len(numeros.items) :
         (\A j \in 1..(p - 1) : RefValid(numeros.items[j]))
         => /\ Fractional(numeros.items[p])
                 => outcome = Raised(Error("ValueError", "perda de informacao", p, ""))
            /\ ( /\ numeros.items[p].t = "str"
                 /\ numeros.items[p].s \in UnparseableStrings )
                 => outcome = Raised(Error("ValueError",
                                           "nao pode ser convertido para inteiro", p, ""))

\* the number of failure kinds of the taxonomy the outcome belongs to
KindsOfOutcome ==
    Cardinality({ k \in {"TypeMismatch", "NullInput", "EmptyNotAllowed", "ElementInvalid"} :
                    \/ k = "TypeMismatch" /\ TypeMismatch
                    \/ k = "NullInput" /\ NullInput
                    \/ k = "EmptyNotAllowed" /\ EmptyNotAllowed
                    \/ k = "ElementInvalid" /\ \E p \in 1..(MaxLen + 1) : ElementInvalidAt(p) })

(***************************************************************************)
(* C15: the error taxonomy is exhaustive.  For every raw input and both    *)
(* operations a failing call fails with exactly one of TypeMismatch        *)
(* (TypeError), NullInput, EmptyNotAllowed or ElementInvalid (ValueError); *)
(* no other exception class escapes, also for floats and numeric strings   *)
(* denoting infinity or not-a-number.                                      *)
(***************************************************************************)
C15_TaxonomyExhaustive ==
    (Done /\ Failed)
    => /\ outcome.error.exc \in {"TypeError", "ValueError"}
       /\ KindsOfOutcome = 1

(***************************************************************************)
(* C16: the core never catches or replaces an error it has constructed.    *)
(* The error _validate_input_list constructs, and the error the validator  *)
(* constructs at line 53 for the element the loop stopped at, reach the    *)
(* caller with the class and the detail they were constructed with.        *)
(***************************************************************************)
C16_ErrorsPropagateUnchanged ==
    /\ (Done /\ ValidateInputList(numeros, operation_name).raised)
         => outcome = Raised(ValidateInputList(numeros, operation_name).error)
    /\ ( /\ Done
         /\ ListGiven
         /\ index >= 1
         /\ IsFloatOrStr(numeros.items[index])
         /\ TryConvert(numeros.items[index], index).raised
         /\ TryConvert(numeros.items[index], index).error.text = "perda de informacao" )
         => outcome = Raised(TryConvert(numeros.items[index], index).error)

\* two frames hold the same call: the same raw input and the same operation
SameCall(f, g) ==
    f.numeros = g.numeros /\ f.operation_name = g.operation_name

(***************************************************************************)
(* C17: the outcome of a call depends only on its own raw input and        *)
(* operation.  Whatever the other callers do in between, a call that ends  *)
(* has the outcome every earlier call on the same input and operation had, *)
(* and the outcome of any other caller's finished call on the same input   *)
(* and operation.                                                          *)
(***************************************************************************)
C17_OutcomeDependsOnInputOnly ==
    \A c \in Callers :
       frames[c].pc = "done"
       => /\ \A s \in seen :
                SameCall(s, frames[c]) => s.outcome = frames[c].outcome
          /\ \A d \in Callers :
                (frames[d].pc = "done" /\ SameCall(frames[d], frames[c]))
                => frames[d].outcome = frames[c].outcome

\* a second call on [2, "5.0"] ends with the sum the first call returned,
\* while the other caller is in the loop of a call on another list
C17_Witness ==
    /\ frames[1].pc = "done"
    /\ frames[1].numeros = PyList(<<PyInt(2), PyStr(<<"5", ".", "0">>)>>)
    /\ frames[1].operation_name = "soma"
    /\ frames[1].outcome = Returned(PyInt(7))
    /\ [ numeros |-> frames[1].numeros, operation_name |-> "soma",
         outcome |-> Returned(PyInt(7)) ] \in seen
    /\ frames[2].pc = "validating"
    /\ frames[2].index = 1
    /\ frames[2].numeros = PyList(<<PyInt(-3), PyNone>>)

(***************************************************************************)
(* C18: order does not affect the sum.  When sum_numbers has ended on a    *)
(* valid list and on a permutation of it, both calls returned the same     *)
(* value.                                                                  *)
(***************************************************************************)
C18_OrderIrrelevant ==
    ( /\ frames[1].pc = "done"
      /\ frames[2].pc = "done"
      /\ frames[1].operation_name = "soma"
      /\ frames[2].operation_name = "soma"
      /\ \A i \in 1..Len(frames[1].numeros.items) :
            RefValid(frames[1].numeros.items[i])
      /\ IsPermutation(frames[1].numeros.items, frames[2].numeros.items) )
    => /\ frames[1].outcome.status = "returned"
       /\ frames[1].outcome = frames[2].outcome

C18_Witness ==
    /\ frames[1].pc = "done"
    /\ frames[2].pc = "done"
    /\ frames[1].numeros = PyList(<<PyInt(2), PyInt(-3), PyStr(<<"5", ".", "0">>)>>)
    /\ frames[2].numeros = PyList(<<PyStr(<<"5", ".", "0">>), PyInt(2), PyInt(-3)>>)
    /\ frames[1].outcome = Returned(PyInt(4))
    /\ frames[2].outcome = Returned(PyInt(4))

\* the request went through the core: the handler answered on its outcome
AnsweredByHandler == hpc = "responded" /\ pc = "done"

Decided == hpc \in {"in_core", "responded"} /\ usuario.valid

IntLike(item) ==
    \/ item.t = "int"
    \/ item.t = "float" /\ item.cls = "fin" /\ item.den = 1
    \/ item.t = "str" /\ item.s \in {<<"5">>, <<"-", "4">>, <<"+", "4">>}

IntOf(item) == IF item.t = "int" THEN item.v ELSE DenotedInteger(item)

\* the decoded value is a list of int-like elements
ListOfIntLike(value) ==
    /\ IsList(value)
    /\ \A i \in 1..Len(value.items) : IntLike(value.items[i])

Authenticated == usuario.valid

\* the request has its answer
Responded == hpc = "responded"

(***************************************************************************)
(* C21: an authenticated POST to /somar or /calcular_media whose numeros   *)
(* is not a list (a string, a number, null, an object) is answered with    *)
(* HTTP 422.                                                               *)
(***************************************************************************)
C21_NonListIs422 ==
    (Responded /\ Authenticated /\ request.route \in Routes
       /\ ~IsList(request.numeros))
    => response.status = 422

C21_Witness ==
    /\ Responded
    /\ Authenticated
    /\ request = [route |-> "/calcular_media", numeros |-> PyStr(<<"a">>)]
    /\ response.status = 422

\* the call of the library, step by step, ends as the call taken as a whole
StepsAgreeWithLibraryOutcome ==
    Done => outcome = LibraryOutcome(numeros, operation_name)

\* an authenticated request to a protected route with a list has its answer
ListAnswered ==
    /\ Responded
    /\ Authenticated
    /\ request.route \in Routes
    /\ IsList(request.numeros)

\* the answer is 200 with the result r, the list xs and the identity of the
\* token
Answered200(r, xs) ==
    /\ response.status = 200
    /\ response.result = r
    /\ response.numeros_entrada = xs
    /\ response.usuario = bearer.sub
    /\ response.nivel_acesso = bearer.nivel_acesso

PassesVerification(token, t) ==
    /\ token.kind = "jwt"
    /\ token.key = SECRET_KEY
    /\ t <= token.exp

\* the request is one to /somar or /calcular_media
Protected == request.route \in Routes

(***************************************************************************)
(* C23: Numbers is invoked and a result returned only for a request whose  *)
(* token passes verification.  A request to /somar or /calcular_media with *)
(* a missing, malformed, wrongly signed or expired token is answered 401   *)
(* and nothing is computed for it; /saude answers 200 with status OK       *)
(* without any token.                                                      *)
(***************************************************************************)
C23_OnlyVerifiedTokensCompute ==
    /\ [][(hpc = "received" /\ hpc' # "received")
            => IF PassesVerification(bearer, now)
               THEN hpc' = "authenticated" /\ usuario' = Payload(bearer)
               ELSE /\ hpc' = "responded"
                    /\ response'.status = 401
                    /\ ~Authenticated']_allvars
    /\ [](pc # "idle" => (Protected /\ Authenticated))
    /\ []((Responded /\ Protected /\ response.status = 200) => Authenticated)
    /\ []((Responded /\ Protected /\ ~Authenticated)
            => /\ response.status = 401
               /\ response.result = PyNone
               /\ pc = "idle")
    /\ []((Responded /\ request.route = "/saude")
            => /\ response.status = 200
               /\ response.result = PyStr(<<"O", "K">>)
               /\ ~Authenticated)

\* a token of the server, past its expiry, is answered 401
C23_Witness ==
    /\ Responded
    /\ request.route = "/somar"
    /\ bearer.kind = "jwt"
    /\ bearer.key = SECRET_KEY
    /\ bearer.exp < now
    /\ response.status = 401
    /\ pc = "idle"

(***************************************************************************)
(* C24: /somar and /calcular_media require a valid administrator token: a  *)
(* request with a validly signed, unexpired token whose nivel_acesso is    *)
(* not "admin" (a token issued by /token_tester) is refused and obtains no *)
(* sum or average.                                                         *)
(***************************************************************************)
C24_AdminTokenRequired ==
    ( /\ Protected
      /\ bearer.kind = "jwt"
      /\ bearer.key = SECRET_KEY
      /\ bearer.nivel_acesso # "admin" )
    => /\ pc = "idle"
       /\ Responded => (response.status # 200 /\ response.result = PyNone)

\* the last token request carried a pair that is not the stored one
WrongCredentials ==
    \/ /\ token_request.route = "/token_admin"
       /\ <<token_request.username, token_request.password>>
             # <<AdminCredentials.username, AdminCredentials.password>>
    \/ /\ token_request.route = "/token_tester"
       /\ <<token_request.username, token_request.password>>
             # <<TesterCredentials.username, TesterCredentials.password>>

(***************************************************************************)
(* C25: both token endpoints refuse wrong credentials: when the submitted  *)
(* username and password do not match the stored pair, /token_admin and    *)
(* /token_tester each respond 401 and return no access_token.              *)
(***************************************************************************)
C25_WrongCredentialsAre401 ==
    WrongCredentials
    => /\ token_response.status = 401
       /\ token_response.access_token = NoToken

\* the position of a call: not yet validated, validating, validated,
\* computed
Rank(p) ==
    CASE p = "idle" -> 0
      [] p = "not_validated" -> 1
      [] p = "validating" -> 2
      [] p = "validated" -> 3
      [] p = "done" -> 4

(***************************************************************************)
(* C26: a call is single-shot and only moves forward, from not yet         *)
(* validated to validated to computed.  The arithmetic runs only after the *)
(* validation has succeeded on the whole list.  Every call on a finite     *)
(* list ends, in exactly one outcome (a result or an error), after it has  *)
(* examined each element at most once, in the order of the input.          *)
(***************************************************************************)
C26_ForwardAndTerminates ==
    /\ [][IF pc' = "idle" THEN pc = "done" ELSE Rank(pc') > Rank(pc)
             \/ (pc = "validating" /\ pc' = "validating")]_vars
    /\ [][(pc # "idle" /\ pc' # "idle" /\ index' # index)
             => /\ pc = "validating"
                /\ index' = index + 1
                /\ index' <= Len(numeros.items)]_vars
    /\ [][(pc' = "validated" /\ pc # "validated")
             => /\ Len(integer_list') = Len(numeros.items)
                /\ outcome' = NoOutcome]_vars
    /\ [][(pc' = "done" /\ outcome'.status = "returned") => pc = "validated"]_vars
    /\ [](Done <=> outcome # NoOutcome)
    /\ [](Done => outcome.status \in {"returned", "raised"})
    /\ [][(pc = "done" /\ pc' = "done") => outcome' = outcome]_vars
    /\ (pc = "not_validated") ~> Done

C26_Witness ==
    /\ Done
    /\ Succeeded
    /\ Len(numeros.items) = MaxLen
    /\ index = MaxLen
    /\ Len(integer_list) = MaxLen

\* the token was issued by the server: a JWT signed with its key
IssuedByServer(token) == token.kind = "jwt" /\ token.key = SECRET_KEY

(***************************************************************************)
(* C27: a token issued at time t carries the expiry                        *)
(* t + ACCESS_TOKEN_EXPIRE_MINUTES.  It is accepted at every time up to    *)
(* its expiry and answered 401 at every time after it; neither the         *)
(* verification of a token nor its use changes its expiry.                 *)
(***************************************************************************)
C27_TokenLifetime ==
    /\ [][(token_response'.access_token # token_response.access_token
             /\ token_response'.access_token.kind = "jwt")
            => /\ token_response'.access_token.exp
                    = now + ACCESS_TOKEN_EXPIRE_MINUTES
               /\ held' = token_response'.access_token]_allvars
    /\ [][(hpc = "received" /\ hpc' # "received" /\ IssuedByServer(bearer))
            => IF now <= bearer.exp
               THEN hpc' = "authenticated" /\ usuario'.exp = bearer.exp
               ELSE hpc' = "responded" /\ response'.status = 401]_allvars
    /\ [][hpc' # hpc => held' = held]_allvars
    /\ [][(hpc # "idle" /\ hpc' # "idle") => bearer' = bearer]_allvars
    /\ [](IssuedByServer(held) => held.exp <= now + ACCESS_TOKEN_EXPIRE_MINUTES)

\* a token issued at time 1 is refused at the first minute after its expiry,
\* and the client still holds it with the same expiry
C27_Witness ==
    /\ Responded
    /\ Protected
    /\ IssuedByServer(bearer)
    /\ bearer.exp = 1 + ACCESS_TOKEN_EXPIRE_MINUTES
    /\ now = bearer.exp + 1
    /\ held = bearer
    /\ response.status = 401

\* both operations have ended on the same input
PairDone ==
    /\ frames[1].pc = "done"
    /\ frames[2].pc = "done"
    /\ frames[1].operation_name = "soma"
    /\ frames[2].operation_name = "média"
    /\ frames[1].numeros = frames[2].numeros

(***************************************************************************)
(* C28: sum_numbers and calculate_average validate a non-empty input in    *)
(* the same way.  For every raw input other than the empty list, one fails *)
(* if and only if the other fails, with a failure of the same kind at the  *)
(* same position; when both succeed they computed on the same validated    *)
(* sequence of integers.  The two differ on the empty list only.           *)
(***************************************************************************)
C28_SameValidation ==
    PairDone
    => IF frames[1].numeros = PyList(<<>>)
       THEN /\ frames[1].outcome.status = "raised"
            /\ frames[2].outcome = Returned(PyNone)
       ELSE /\ frames[1].outcome.status = frames[2].outcome.status
            /\ frames[1].outcome.error = frames[2].outcome.error
            /\ frames[1].index = frames[2].index
            /\ frames[1].integer_list = frames[2].integer_list

\* both fail at the third element, after the same two integers
C28_Witness ==
    /\ PairDone
    /\ frames[1].numeros = PyList(<<PyStr(<<"5", ".", "0">>), PyInt(2), PyStr(<<"a">>)>>)
    /\ frames[1].outcome.status = "raised"
    /\ frames[2].outcome.error.pos = 3
    /\ frames[2].integer_list = <<5, 2>>

(***************************************************************************)
(* C29: validation never modifies the caller's list: from the start of a   *)
(* call of sum_numbers or calculate_average to its outcome, successful or  *)
(* failing, the input list keeps its length and its elements with their    *)
(* types; the converted integers go only into the list the validation      *)
(* builds.                                                                 *)
(***************************************************************************)
C29_InputListUntouched ==
    /\ [][(pc # "idle" /\ pc' # "idle") => numeros' = numeros]_vars
    /\ [][(pc # "idle" /\ pc' # "idle" /\ integer_list' # integer_list)
            => /\ Len(integer_list') = Len(integer_list) + 1
               /\ \A i \in 1..Len(integer_list) :
                     integer_list'[i] = integer_list[i]]_vars
    /\ [][pc' = "not_validated" => integer_list' = <<>>]_vars

\* the strings and the float of the input are still there after the call
\* that converted them
C29_Witness ==
    /\ Done
    /\ Succeeded
    /\ numeros = PyList(<<PyStr(<<"5", ".", "0">>), PyFloat(3, 1), PyInt(2)>>)
    /\ integer_list = <<5, 3, 2>>

(***************************************************************************)
(* C30: no sequence of token requests made only with wrong credentials     *)
(* yields an access_token that the protected endpoints accept.             *)
(* /token_admin returns no token, and the placeholder that /token_tester   *)
(* returns for wrong credentials fails verification at every time: a       *)
(* request to /somar or /calcular_media with it is answered 401.           *)
(***************************************************************************)
C30_WrongCredentialsGiveNoAccess ==
    ~right_credentials_used
    => /\ ~PassesVerification(held, now)
       /\ \A t \in 0..MaxTime :
             ~ObterUsuarioAtualJwt(token_response.access_token, t).valid
       /\ token_request.route = "/token_admin"
             => token_response.access_token = NoToken
       /\ Protected
             => /\ pc = "idle"
                /\ ~Authenticated
                /\ Responded => response.status = 401

\* the placeholder of /token_tester, sent to /calcular_media, is answered 401
C30_Witness ==
    /\ ~right_credentials_used
    /\ token_request.route = "/token_tester"
    /\ WrongCredentials
    /\ token_response.access_token = OpaqueToken
    /\ Responded
    /\ request.route = "/calcular_media"
    /\ bearer = token_response.access_token
    /\ response.status = 401

====
